---------------------------- MODULE Spec2Model ----------------------------
(***************************************************************************)
(* Model of the risk and schedule calculators of team-of-rivals:           *)
(*   - OperationalCalculator.calculate_critical_path                       *)
(*       (src/forge-operator/scripts/operational_calculator.py)            *)
(*   - RiskAnalyzer.monte_carlo_simulation                                 *)
(*       (src/veto-skeptic/scripts/risk_analyzer.py)                       *)
(*                                                                         *)
(* A task is a Python dict, modelled as a TLA+ record whose domain is the  *)
(* set of keys the dict holds so far: reading a key that was never written *)
(* is an evaluation error, as it is a KeyError in the program.             *)
(***************************************************************************)
EXTENDS Integers, Sequences, FiniteSets, TLC

VARIABLES
    input,              \* the task list handed to calculate_critical_path
    mode,               \* how the two callers use it: serial, shared, copies
    tasks,              \* tasks[k]: the task dicts of collection object k
    pc,                 \* pc[c]: where caller c is in calculate_critical_path
    changed,            \* changed[c]: the local of the forward pass
    sweeps,             \* sweeps[c]: iterations of "while changed" so far
    project_duration,   \* project_duration[c]: the local of line 295
    result,             \* result[c]: the dict returned at line 309
    error,              \* error[c]: the exception that ended the call
    rng,                \* state of numpy's process-global generator
    calls,              \* the monte_carlo_simulation calls made so far
    ret,                \* the call of a pure RiskAnalyzer method, and its end
    base_rates          \* self.base_rates of the RiskAnalyzer

schedVars == <<input, mode, tasks, pc, changed, sweeps, project_duration,
               result, error>>
vars == <<input, mode, tasks, pc, changed, sweeps, project_duration,
          result, error, rng, calls, ret, base_rates>>

---------------------------------------------------------------------------
(* Bounds of the model.                                                    *)

\* durations range over 0..MaxDur
MaxDur == 1
\* the forward pass is followed for at most MaxSweeps iterations of its
\* while loop (on a cyclic graph the program's loop has no bound)
MaxSweeps == 5
\* n_simulations ranges over 1..MaxN
MaxN == 2
\* the generator is followed through a cycle of StreamLen raw draws
StreamLen == 4
\* probabilities range over the multiples of 1/Grid from -1/Grid to 1 + 1/Grid
Grid == 10
\* float arithmetic is followed with mantissas of MantissaBits bits (the
\* program's floats carry 53)
MantissaBits == 6

---------------------------------------------------------------------------
(* Helpers.                                                                *)

Max(S) == CHOOSE x \in S : \A y \in S : y <= x

Min(S) == CHOOSE x \in S : \A y \in S : x <= y

RECURSIVE SumSeq(_)
SumSeq(s) == IF s = <<>> THEN 0 ELSE Head(s) + SumSeq(Tail(s))

---------------------------------------------------------------------------
(* Inputs of calculate_critical_path.                                      *)

Names == <<"A", "B", "C", "D">>

\* an identifier that names no task of any collection
Dangling == "X"

\* {'name': str, 'duration': int, 'dependencies': List[str]}
Task(n, d, deps) == [name |-> n, duration |-> d, dependencies |-> deps]

\* the task lists of n tasks named Names[1..n], in that listing order, each
\* with at most two dependencies drawn from the names (itself included) and
\* the dangling identifier
TaskLists(n) ==
    LET ids == {Names[i] : i \in 1..n} \cup {Dangling}
        deps == {D \in SUBSET ids : Cardinality(D) <= 2}
        shapes == [1..n -> (0..MaxDur) \X deps]
    IN  {[i \in 1..n |-> Task(Names[i], f[i][1], f[i][2])] : f \in shapes}

\* the scenario of the specification's section 8
Scenario ==
    << Task("A", 3, {}), Task("B", 2, {"A"}), Task("C", 4, {"A"}),
       Task("D", 1, {"B", "C"}) >>

NameSet(ts) == {ts[i].name : i \in 1..Len(ts)}

\* line 271: task_map = {task['name']: task for task in tasks}; the index of
\* the dict that task_map holds for a name
TaskMap(ts, n) == CHOOSE i \in 1..Len(ts) : ts[i].name = n

\* the identifiers some task names that no task of the collection bears
DanglingDeps(ts) ==
    UNION {ts[i].dependencies : i \in 1..Len(ts)} \ NameSet(ts)

\* names reachable from name n along dependency edges, in at most k steps
RECURSIVE Reach(_, _, _)
Reach(ts, S, k) ==
    IF k = 0 THEN S
    ELSE LET next == UNION {ts[TaskMap(ts, n)].dependencies \cap NameSet(ts)
                            : n \in S}
         IN  Reach(ts, S \cup next, k - 1)

DepsOf(ts, n) == ts[TaskMap(ts, n)].dependencies \cap NameSet(ts)

HasCycle(ts) ==
    \E n \in NameSet(ts) : n \in Reach(ts, DepsOf(ts, n), Len(ts))


---------------------------------------------------------------------------
(* calculate_critical_path, one action per block of the function.  Each    *)
(* for loop runs as one step; the two callers interleave between blocks.   *)

Callers == {1, 2}

\* no pure method of RiskAnalyzer has been called
NoCall == [method |-> "none"]

\* lines 16-25: self.base_rates, in hundred-thousandths
BaseRateTable ==
    [startup_unicorn |-> 6, new_product_success |-> 5000,
     it_project_on_time |-> 16000, ma_value_creation |-> 30000,
     platform_network_effects |-> 1000, behavior_change_scale |-> 8000,
     regulatory_approval_new |-> 22000, disruption_incumbent |-> 3000]

Finished(c) == pc[c] \in {"done", "raised"}

\* the collection object caller c works on: its own copy, or the shared one
Coll(c) == IF mode = "copies" THEN c ELSE 1

\* a slip in lines 275-276: an early_start the dict already holds is kept
\* (setdefault), and only early_finish is set again
InitEarlyTask_KeepStart(t) ==
    IF "early_start" \in DOMAIN t
    THEN [early_finish |-> t.duration] @@ t
    ELSE [early_start |-> 0, early_finish |-> t.duration] @@ t

\* lines 275-276: task['early_start'] = 0; task['early_finish'] = duration
InitEarlyTask(t) ==
    [early_start |-> 0, early_finish |-> t.duration] @@ t

\* lines 284-288: the early finishes the generator hands to max(): those of
\* the dependencies that task_map holds ("if dep in task_map")
DepFinishes(ts, t) ==
    {ts[TaskMap(ts, d)].early_finish : d \in t.dependencies \cap NameSet(ts)}

\* a slip in line 292: changed is not set when a task is moved, so that the
\* while loop ends after its first sweep
RECURSIVE SweepFrom_ChangedNotSet(_, _, _)
SweepFrom_ChangedNotSet(ts, i, ch) ==
    IF i > Len(ts) THEN [tasks |-> ts, changed |-> ch, raised |-> FALSE]
    ELSE LET t == ts[i] IN
         IF t.dependencies = {} THEN SweepFrom_ChangedNotSet(ts, i + 1, ch)
         ELSE IF DepFinishes(ts, t) = {}
              THEN [tasks |-> ts, changed |-> ch, raised |-> TRUE]
         ELSE LET max_finish == Max(DepFinishes(ts, t)) IN
              IF t.early_start < max_finish
              THEN SweepFrom_ChangedNotSet(
                       [ts EXCEPT ![i] =
                           [early_start |-> max_finish,
                            early_finish |-> max_finish + t.duration] @@ t],
                       i + 1, ch)
              ELSE SweepFrom_ChangedNotSet(ts, i + 1, ch)

\* a slip in line 289: <= for <, so that a task with dependencies is moved,
\* and changed set, on every sweep
RECURSIVE SweepFrom_MovedWhenEqual(_, _, _)
SweepFrom_MovedWhenEqual(ts, i, ch) ==
    IF i > Len(ts) THEN [tasks |-> ts, changed |-> ch, raised |-> FALSE]
    ELSE LET t == ts[i] IN
         IF t.dependencies = {} THEN SweepFrom_MovedWhenEqual(ts, i + 1, ch)
         ELSE IF DepFinishes(ts, t) = {}
              THEN [tasks |-> ts, changed |-> ch, raised |-> TRUE]
         ELSE LET max_finish == Max(DepFinishes(ts, t)) IN
              IF t.early_start <= max_finish
              THEN SweepFrom_MovedWhenEqual(
                       [ts EXCEPT ![i] =
                           [early_start |-> max_finish,
                            early_finish |-> max_finish + t.duration] @@ t],
                       i + 1, TRUE)
              ELSE SweepFrom_MovedWhenEqual(ts, i + 1, ch)

\* lines 282-292: the body of the for loop for the tasks i..Len(ts), over the
\* dicts as mutated so far; max() of no value raises ValueError and leaves
\* the earlier tasks of the sweep updated
RECURSIVE SweepFrom(_, _, _)
SweepFrom(ts, i, ch) ==
    IF i > Len(ts) THEN [tasks |-> ts, changed |-> ch, raised |-> FALSE]
    ELSE LET t == ts[i] IN
         IF t.dependencies = {} THEN SweepFrom(ts, i + 1, ch)
         ELSE IF DepFinishes(ts, t) = {}
              THEN [tasks |-> ts, changed |-> ch, raised |-> TRUE]
         ELSE LET max_finish == Max(DepFinishes(ts, t)) IN
              IF t.early_start < max_finish
              THEN SweepFrom(
                       [ts EXCEPT ![i] =
                           [early_start |-> max_finish,
                            early_finish |-> max_finish + t.duration] @@ t],
                       i + 1, TRUE)
              ELSE SweepFrom(ts, i + 1, ch)

\* lines 299-300: late_finish = project_duration; late_start = that - duration
BackwardTask(t, pd) ==
    [late_finish |-> pd, late_start |-> pd - t.duration] @@ t

\* a slip in line 305: the slack is taken from early_finish
SlackTask_FromFinish(t) == [slack |-> t.late_start - t.early_finish] @@ t

\* line 305: task['slack'] = task['late_start'] - task['early_start']
SlackTask(t) == [slack |-> t.late_start - t.early_start] @@ t

\* lines 303-307 and 313: the names, in listing order, of the tasks i.. whose
\* slack satisfies the test (zero: critical_path, positive: tasks_with_slack)
RECURSIVE NamesWithSlack(_, _, _)
NamesWithSlack(ts, i, zero) ==
    IF i > Len(ts) THEN <<>>
    ELSE (IF (zero /\ ts[i].slack = 0) \/ (~zero /\ ts[i].slack > 0)
          THEN <<ts[i].name>> ELSE <<>>)
         \o NamesWithSlack(ts, i + 1, zero)

\* lines 309-315: the returned dict; average_slack is kept as the fraction
\* num/den that the division of line 314 is given (0 for no task)
ResultOf(ts, pd) ==
    LET critical_tasks == NamesWithSlack(ts, 1, TRUE) IN
    [project_duration |-> pd,
     critical_path |-> critical_tasks,
     critical_path_length |-> Len(critical_tasks),
     tasks_with_slack |-> NamesWithSlack(ts, 1, FALSE),
     average_slack |->
        IF ts = <<>> THEN [num |-> 0, den |-> 1]
        ELSE [num |-> SumSeq([i \in 1..Len(ts) |-> ts[i].slack]),
              den |-> Len(ts)]]

NoResult == [project_duration |-> 0, critical_path |-> <<>>,
             critical_path_length |-> 0, tasks_with_slack |-> <<>>,
             average_slack |-> [num |-> 0, den |-> 1]]

\* entry of the function, line 271.  A serial caller enters only when no
\* other call is running; otherwise the two callers enter at any time.
Call(c) ==
    /\ pc[c] = "idle"
    /\ mode = "serial" =>
          /\ \A o \in Callers \ {c} : pc[o] = "idle" \/ Finished(o)
          /\ c = 1 \/ Finished(1)
    /\ pc' = [pc EXCEPT ![c] = "init"]
    /\ UNCHANGED <<input, mode, tasks, changed, sweeps, project_duration,
                   result, error, rng, calls, ret, base_rates>>

\* lines 273-279
InitEarly(c) ==
    /\ pc[c] = "init"
    /\ tasks' = [tasks EXCEPT ![Coll(c)] =
                    [i \in 1..Len(@) |-> InitEarlyTask(@[i])]]
    /\ changed' = [changed EXCEPT ![c] = TRUE]
    /\ pc' = [pc EXCEPT ![c] = "forward"]
    /\ UNCHANGED <<input, mode, sweeps, project_duration, result, error,
                   rng, calls, ret, base_rates>>

\* lines 280-292: one iteration of "while changed"
ForwardSweep(c) ==
    /\ pc[c] = "forward"
    /\ changed[c]
    /\ sweeps[c] < MaxSweeps
    /\ LET s == SweepFrom(tasks[Coll(c)], 1, FALSE) IN
       /\ tasks' = [tasks EXCEPT ![Coll(c)] = s.tasks]
       /\ changed' = [changed EXCEPT ![c] = s.changed]
       /\ pc' = [pc EXCEPT ![c] = IF s.raised THEN "raised" ELSE "forward"]
       /\ error' = [error EXCEPT ![c] =
                       IF s.raised THEN "ValueError" ELSE @]
    /\ sweeps' = [sweeps EXCEPT ![c] = @ + 1]
    /\ UNCHANGED <<input, mode, project_duration, result, rng, calls, ret, base_rates>>

\* line 295, once the while loop has ended: max() of no task raises
FindProjectDuration(c) ==
    /\ pc[c] = "forward"
    /\ ~changed[c]
    /\ LET ts == tasks[Coll(c)] IN
       IF ts = <<>>
       THEN /\ pc' = [pc EXCEPT ![c] = "raised"]
            /\ error' = [error EXCEPT ![c] = "ValueError"]
            /\ UNCHANGED project_duration
       ELSE /\ project_duration' = [project_duration EXCEPT ![c] =
                   Max({ts[i].early_finish : i \in 1..Len(ts)})]
            /\ pc' = [pc EXCEPT ![c] = "backward"]
            /\ UNCHANGED error
    /\ UNCHANGED <<input, mode, tasks, changed, sweeps, result, rng, calls, ret,
                   base_rates>>

\* lines 297-300
BackwardPass(c) ==
    /\ pc[c] = "backward"
    /\ tasks' = [tasks EXCEPT ![Coll(c)] =
                    [i \in 1..Len(@) |->
                        BackwardTask(@[i], project_duration[c])]]
    /\ pc' = [pc EXCEPT ![c] = "critical"]
    /\ UNCHANGED <<input, mode, changed, sweeps, project_duration, result,
                   error, rng, calls, ret, base_rates>>

\* lines 302-315
FindCriticalPath(c) ==
    /\ pc[c] = "critical"
    /\ LET ts == [i \in 1..Len(tasks[Coll(c)]) |->
                     SlackTask(tasks[Coll(c)][i])] IN
       /\ tasks' = [tasks EXCEPT ![Coll(c)] = ts]
       /\ result' = [result EXCEPT ![c] = ResultOf(ts, project_duration[c])]
    /\ pc' = [pc EXCEPT ![c] = "done"]
    /\ UNCHANGED <<input, mode, changed, sweeps, project_duration, error,
                   rng, calls, ret, base_rates>>

SchedNext ==
    \E c \in Callers :
        \/ Call(c)
        \/ InitEarly(c)
        \/ ForwardSweep(c)
        \/ FindProjectDuration(c)
        \/ BackwardPass(c)
        \/ FindCriticalPath(c)

SchedInit(lists, modes) ==
    /\ input \in lists
    /\ mode \in modes
    /\ tasks = [k \in Callers |-> input]
    /\ pc = [c \in Callers |-> "idle"]
    /\ changed = [c \in Callers |-> FALSE]
    /\ sweeps = [c \in Callers |-> 0]
    /\ project_duration = [c \in Callers |-> 0]
    /\ result = [c \in Callers |-> NoResult]
    /\ error = [c \in Callers |-> "none"]
    /\ rng = <<>>
    /\ calls = <<>>
    /\ ret = NoCall
    /\ base_rates = BaseRateTable

\* two successive calls on one collection: every task list of up to three
\* tasks, and the scenario
Init ==
    SchedInit(UNION {TaskLists(n) : n \in 0..3} \cup {Scenario}, {"serial"})

Spec == Init /\ [][SchedNext]_vars

\* two successive calls on an acyclic list of up to three tasks whose
\* dependencies all resolve
LiveInit ==
    SchedInit({ts \in UNION {TaskLists(n) : n \in 0..3} :
                  ~HasCycle(ts) /\ DanglingDeps(ts) = {}},
              {"serial"})

\* the interpreter runs every statement it has reached: a call that can take
\* a step takes it
SpecLive == LiveInit /\ [][SchedNext]_vars /\ WF_vars(SchedNext)

\* two callers, serialized, interleaved on one collection, or on copies:
\* every task list of up to two tasks, and the scenario
ConcInit ==
    SchedInit(UNION {TaskLists(n) : n \in 0..2} \cup {Scenario},
              {"serial", "shared", "copies"})

SpecConc == ConcInit /\ [][SchedNext]_vars

---------------------------------------------------------------------------
(* calculate_critical_path as a function: what one call, run alone on a    *)
(* freshly built task list, ends with.                                     *)

\* lines 280-292: "while changed", followed for at most fuel iterations
RECURSIVE SoloForward(_, _)
SoloForward(ts, fuel) ==
    LET s == SweepFrom(ts, 1, FALSE) IN
    IF s.raised THEN [tasks |-> s.tasks, end |-> "raised"]
    ELSE IF ~s.changed THEN [tasks |-> s.tasks, end |-> "exit"]
    ELSE IF fuel <= 1 THEN [tasks |-> s.tasks, end |-> "running"]
    ELSE SoloForward(s.tasks, fuel - 1)

\* lines 271-315
Solo(ts0) ==
    LET fw == SoloForward([i \in 1..Len(ts0) |-> InitEarlyTask(ts0[i])],
                          MaxSweeps)
    IN
    IF fw.end = "running"
    THEN [pc |-> "forward", error |-> "none", result |-> NoResult,
          tasks |-> fw.tasks]
    ELSE IF fw.end = "raised" \/ fw.tasks = <<>>
    THEN [pc |-> "raised", error |-> "ValueError", result |-> NoResult,
          tasks |-> fw.tasks]
    ELSE LET ts == fw.tasks
             pd == Max({ts[i].early_finish : i \in 1..Len(ts)})
             fin == [i \in 1..Len(ts) |-> SlackTask(BackwardTask(ts[i], pd))]
         IN  [pc |-> "done", error |-> "none", result |-> ResultOf(fin, pd),
              tasks |-> fin]

---------------------------------------------------------------------------
(* Claims about calculate_critical_path.                                   *)

Acyclic(ts) == ~HasCycle(ts)

Resolved(ts) == DanglingDeps(ts) = {}

\* no task names itself among its dependencies
NoSelfDependency(ts) ==
    \A i \in 1..Len(ts) : ts[i].name \notin ts[i].dependencies

\* C1: scheduling a collection whose dependency relation has a cycle (no task
\* depending on itself, every dependency resolving) always ends by failing
\* with CycleDetected: the call does not end any other way (a returned
\* result, another exception), and its forward loop does not keep sweeping
\* beyond the one sweep per task, plus one, that a relaxation which ends
\* needs.
C1_CycleFailsWithCycleDetected ==
    \A c \in Callers :
        (HasCycle(input) /\ NoSelfDependency(input) /\ Resolved(input)) =>
            /\ Finished(c) => pc[c] = "raised" /\ error[c] = "CycleDetected"
            /\ sweeps[c] <= Len(input) + 1

\* C2: scheduling a collection in which a task names a dependency that no
\* task of the collection bears fails with DanglingDependency: once the call
\* has ended it has raised that error and returned no result.
C2_DanglingFailsWithDanglingDependency ==
    \A c \in Callers :
        (DanglingDeps(input) # {} /\ Finished(c)) =>
            pc[c] = "raised" /\ error[c] = "DanglingDependency"

\* C3: scheduling A(3), B(2, [A]), C(4, [A]), D(1, [B, C]) returns
\* project_duration 8 and critical_path [A, C, D], and gives B slack 2.
C3_ScenarioResult ==
    \A c \in Callers :
        (input = Scenario /\ Finished(c)) =>
            /\ pc[c] = "done"
            /\ result[c].project_duration = 8
            /\ result[c].critical_path = <<"A", "C", "D">>
            /\ tasks[Coll(c)][2].slack = 2

\* the sums of the durations of the dependency chains t1..tk that end at the
\* task named n, start at a task without dependencies and run, before n,
\* through tasks of crit only
RECURSIVE ChainSums(_, _, _)
ChainSums(ts, crit, n) ==
    LET t == ts[TaskMap(ts, n)] IN
    (IF t.dependencies = {} THEN {t.duration} ELSE {})
    \cup UNION {{s + t.duration : s \in ChainSums(ts, crit, d)}
                : d \in t.dependencies \cap crit}

SeqRange(s) == {s[i] : i \in 1..Len(s)}

\* C4: for every non-empty acyclic collection the returned critical_path
\* contains a chain t1..tk of zero-slack tasks, t1 without dependencies, each
\* next one depending on the one before, whose durations sum to
\* project_duration.
C4_CriticalPathHoldsFullChain ==
    \A c \in Callers :
        (input # <<>> /\ Acyclic(input) /\ Resolved(input) /\ pc[c] = "done")
        => LET crit == SeqRange(result[c].critical_path) IN
           \E n \in crit :
               result[c].project_duration \in ChainSums(input, crit, n)

\* C5: scheduling the empty collection returns project_duration 0 and an
\* empty critical path, and raises no error.
C5_EmptyCollectionReturnsZero ==
    \A c \in Callers :
        (input = <<>> /\ Finished(c)) =>
            /\ pc[c] = "done"
            /\ error[c] = "none"
            /\ result[c].project_duration = 0
            /\ result[c].critical_path = <<>>

\* C6: scheduling is idempotent: for every acyclic collection, a second call
\* on the same task dicts, which the first call has populated, ends as the
\* first did, with an identical returned dict (or the same exception).
C6_SecondRunSameResult ==
    (Acyclic(input) /\ Finished(1) /\ Finished(2)) =>
        /\ pc[2] = pc[1]
        /\ error[2] = error[1]
        /\ result[2] = result[1]

\* a second call has returned, on dicts the first call left with early
\* starts after 0 and positive slacks
C6_Witness ==
    /\ Acyclic(input)
    /\ pc[1] = "done" /\ pc[2] = "done"
    /\ \E i \in 1..Len(input) : tasks[1][i].early_start > 0
    /\ \E i \in 1..Len(input) : tasks[1][i].slack > 0

\* C7: when two calls on one collection are serialized, or each works on its
\* own copy, every call ends with what a call run alone ends with: the same
\* returned dict (project_duration, the tasks of zero and of positive slack,
\* the sum of the slacks) or the same exception (an
\* interleaving of two calls on one shared collection in which a call returns
\* another project_duration or slack is the state C7_Witness).
C7_SerialOrCopiesGiveSoloResult ==
    \A c \in Callers :
        (mode \in {"serial", "copies"} /\ Finished(c)) =>
            LET solo == Solo(input) IN
            /\ pc[c] = solo.pc
            /\ error[c] = solo.error
            /\ result[c] = solo.result

\* two calls interleaved on one shared collection: a call has returned a
\* project_duration other than the one it returns when run alone
C7_Witness ==
    \E c \in Callers :
        /\ mode = "shared"
        /\ pc[c] = "done"
        /\ Solo(input).pc = "done"
        /\ result[c].project_duration # Solo(input).result.project_duration

---------------------------------------------------------------------------
(* monte_carlo_simulation.                                                 *)
(*                                                                         *)
(* Numbers are kept exact.  base_case is a multiple of 10 and volatility   *)
(* is held in tenths, so that every sample and base_case * 0.1 are         *)
(* integers; a percentile, which interpolates between two samples at a     *)
(* fraction in hundredths, is held in hundredths; a mean is held as the    *)
(* fraction num/den; std is held as its square.                            *)
(*                                                                         *)
(* np.random is the process-global generator: rng is the cycle of raw      *)
(* draws its present state determines, the next draw first.  The function  *)
(* takes no seed and nothing in the program seeds the generator, so the    *)
(* state a call meets is whatever earlier draws left.                      *)

Raw == 0..2

BaseCases == {-10, 0, 10}

\* in tenths
Volatilities == {-5, 0, 20}

Configs ==
    [base_case : BaseCases, volatility : Volatilities,
     n_simulations : 1..MaxN, include_black_swan : BOOLEAN]

\* the standard normal deviate a raw draw becomes
Gauss(raw) == raw - 1

\* line 68: np.random.random() < 0.01, for the uniform a raw draw becomes
BlackSwanHit(raw) == raw = 0

\* line 64: np.random.normal refuses a scale whose sign bit is set ("scale <
\* 0"); base_case * volatility is a float product, negative (or -0.0) when
\* exactly one factor is negative
ScaleSignBit(cfg) == (cfg.base_case < 0) # (cfg.volatility < 0)

\* the k raw draws after the first skip ones of the cycle
Draws(stream, skip, k) ==
    [i \in 1..k |-> stream[((skip + i - 1) % Len(stream)) + 1]]

\* the generator's cycle after k draws
Advance(stream, k) ==
    [i \in 1..Len(stream) |-> stream[((k + i - 1) % Len(stream)) + 1]]

\* line 64: loc + scale * deviate, scale = base_case * volatility
NormalSamples(cfg, raws) ==
    [i \in 1..Len(raws) |->
        cfg.base_case
        + (cfg.base_case * cfg.volatility * Gauss(raws[i])) \div 10]

\* lines 68-69: simulations[black_swan_mask] = base_case * 0.1
InjectBlackSwan(cfg, simulations, raws) ==
    [i \in 1..Len(simulations) |->
        IF BlackSwanHit(raws[i]) THEN cfg.base_case \div 10
        ELSE simulations[i]]

\* a slip in np.percentile: the samples are interpolated as they were drawn
Percentile_Unsorted(simulations, q) ==
    LET n == Len(simulations)
        k == q * (n - 1)
        lo == (k \div 100) + 1
        hi == IF lo < n THEN lo + 1 ELSE n
    IN  100 * simulations[lo]
        + (simulations[hi] - simulations[lo]) * (k % 100)

\* line 72: np.percentile(simulations, q), linear interpolation at the
\* virtual index q/100 * (n-1) of the sorted samples, in hundredths
Percentile(simulations, q) ==
    LET s == SortSeq(simulations, LAMBDA a, b : a < b)
        n == Len(s)
        k == q * (n - 1)
        lo == (k \div 100) + 1
        hi == IF lo < n THEN lo + 1 ELSE n
    IN  100 * s[lo] + (s[hi] - s[lo]) * (k % 100)

\* the indices of the samples a mask selects
Below(simulations, p100) ==
    {i \in 1..Len(simulations) : 100 * simulations[i] <= p100}

SumOver(simulations, I) ==
    SumSeq([i \in 1..Len(simulations) |->
               IF i \in I THEN simulations[i] ELSE 0])

\* a slip in line 89: the mask takes the samples at or above the percentile
TailMean_Above(simulations, p100) ==
    LET I == {i \in 1..Len(simulations) : 100 * simulations[i] >= p100}
    IN  [num |-> SumOver(simulations, I), den |-> Cardinality(I)]

\* line 89: np.mean(simulations[simulations <= percentiles[0]])
TailMean(simulations, p100) ==
    LET I == Below(simulations, p100)
    IN  [num |-> SumOver(simulations, I), den |-> Cardinality(I)]

\* a slip in line 87: a sample of exactly 0 counts as a loss
ProbabilityLoss_AtOrBelowZero(simulations) ==
    [num |-> Cardinality({i \in 1..Len(simulations) : simulations[i] <= 0}),
     den |-> Len(simulations)]

\* line 87: np.sum(simulations < 0) / n_simulations
ProbabilityLoss(simulations) ==
    [num |-> Cardinality({i \in 1..Len(simulations) : simulations[i] < 0}),
     den |-> Len(simulations)]

\* lines 72-90: the returned dict
Statistics(simulations) ==
    LET n == Len(simulations)
        all == 1..n
        sum == SumOver(simulations, all)
        squares == SumSeq([i \in all |-> simulations[i] * simulations[i]])
        percentiles == [q \in {5, 10, 25, 50, 75, 90, 95} |->
                           Percentile(simulations, q)]
    IN  [mean |-> [num |-> sum, den |-> n],
         median |-> Percentile(simulations, 50),
         std |-> [num |-> n * squares - sum * sum, den |-> n * n],
         p5 |-> percentiles[5],
         p10 |-> percentiles[10],
         p25 |-> percentiles[25],
         p50 |-> percentiles[50],
         p75 |-> percentiles[75],
         p90 |-> percentiles[90],
         p95 |-> percentiles[95],
         worst_case |-> Min({simulations[i] : i \in all}),
         best_case |-> Max({simulations[i] : i \in all}),
         probability_loss |-> ProbabilityLoss(simulations),
         value_at_risk_95 |-> percentiles[5],
         conditional_var_95 |-> TailMean(simulations, percentiles[5])]

\* one call of monte_carlo_simulation, lines 63-90; calls keeps, per call,
\* its arguments, the final simulations array and what it returned
Simulate(cfg) ==
    /\ Len(calls) < 2
    /\ IF ScaleSignBit(cfg)
       THEN /\ calls' = Append(calls,
                   [args |-> cfg, end |-> "raised", error |-> "ValueError",
                    simulations |-> <<>>])
            /\ UNCHANGED rng
       ELSE LET n == cfg.n_simulations
                used == IF cfg.include_black_swan THEN 2 * n ELSE n
                normal == NormalSamples(cfg, Draws(rng, 0, n))
                simulations ==
                    IF cfg.include_black_swan
                    THEN InjectBlackSwan(cfg, normal, Draws(rng, n, n))
                    ELSE normal
            IN  /\ calls' = Append(calls,
                       [args |-> cfg, end |-> "returned", error |-> "none",
                        simulations |-> simulations,
                        stats |-> Statistics(simulations)])
                /\ rng' = Advance(rng, used)
    /\ UNCHANGED schedVars
    /\ UNCHANGED <<ret, base_rates>>

\* configurations that also set the black-swan probability (in hundredths)
\* and severity (in tenths) to other values than the 0.01 and 0.1 of lines
\* 68-69
ConfiguredConfigs ==
    [base_case : {10}, volatility : {0, 20}, n_simulations : 1..MaxN,
     include_black_swan : {TRUE}, black_swan_probability : {50},
     black_swan_severity : {5}]

\* lines 46-50: the function has no parameter for the black-swan probability
\* or severity; a call that passes them is refused with TypeError before
\* its body runs
SimulateConfigured(cfg) ==
    /\ Len(calls) < 2
    /\ calls' = Append(calls,
           [args |-> cfg, end |-> "raised", error |-> "TypeError",
            simulations |-> <<>>])
    /\ UNCHANGED <<schedVars, rng, ret, base_rates>>

SimNext ==
    \/ \E cfg \in Configs : Simulate(cfg)
    \/ \E cfg \in ConfiguredConfigs : SimulateConfigured(cfg)

\* the generator in any state; no task list is being scheduled
SimInit ==
    /\ rng \in [1..StreamLen -> Raw]
    /\ calls = <<>>
    /\ ret = NoCall
    /\ base_rates = BaseRateTable
    /\ input = <<>>
    /\ mode = "serial"
    /\ tasks = [k \in Callers |-> <<>>]
    /\ pc = [c \in Callers |-> "idle"]
    /\ changed = [c \in Callers |-> FALSE]
    /\ sweeps = [c \in Callers |-> 0]
    /\ project_duration = [c \in Callers |-> 0]
    /\ result = [c \in Callers |-> NoResult]
    /\ error = [c \in Callers |-> "none"]

SpecSim == SimInit /\ [][SimNext]_vars

Returned(k) == k \in 1..Len(calls) /\ calls[k].end = "returned"

---------------------------------------------------------------------------
(* Claims about monte_carlo_simulation.                                    *)

\* C8: simulation is deterministic: two invocations with identical
\* configuration (the function takes no seed; every argument it takes is
\* the same) return identical statistics, whatever ran before them.
C8_SameConfigSameStatistics ==
    \A j, k \in 1..Len(calls) :
        (Returned(j) /\ Returned(k) /\ calls[j].args = calls[k].args)
        => calls[j].stats = calls[k].stats

\* C9: in every returned result the percentiles are non-decreasing in rank:
\* p5 <= p10 <= p25 <= p50 <= p75 <= p90 <= p95.
C9_PercentilesNonDecreasing ==
    \A k \in 1..Len(calls) :
        Returned(k) =>
            LET r == calls[k].stats IN
            /\ r.p5 <= r.p10
            /\ r.p10 <= r.p25
            /\ r.p25 <= r.p50
            /\ r.p50 <= r.p75
            /\ r.p75 <= r.p90
            /\ r.p90 <= r.p95

\* a call has returned percentiles that are not all equal
C9_Witness ==
    \E k \in 1..Len(calls) :
        /\ Returned(k)
        /\ calls[k].stats.p5 < calls[k].stats.p50
        /\ calls[k].stats.p50 < calls[k].stats.p95

C11_ProbabilityOfLoss ==
    \A k \in 1..Len(calls) :
        Returned(k) =>
            LET loss == calls[k].stats.probability_loss
                sims == calls[k].simulations
            IN  /\ loss.den = calls[k].args.n_simulations
                /\ loss.num = Cardinality({i \in 1..Len(sims) : sims[i] < 0})
                /\ 0 <= loss.num
                /\ loss.num <= loss.den

\* a call has returned with some samples below 0 and some not, and a
\* probability_loss strictly between 0 and 1
C11_Witness ==
    \E k \in 1..Len(calls) :
        /\ Returned(k)
        /\ calls[k].stats.probability_loss.num > 0
        /\ calls[k].stats.probability_loss.num
              < calls[k].stats.probability_loss.den

\* C12: a call with a negative volatility fails, whatever the sign of
\* base_case, before any sample is drawn: it returns no statistics and
\* leaves the generator where it was.
C12_NegativeVolatilityFails ==
    \A k \in 1..Len(calls) :
        calls[k].args.volatility < 0 =>
            /\ calls[k].end = "raised"
            /\ calls[k].simulations = <<>>

---------------------------------------------------------------------------
(* Python float arithmetic: binary floating point, every operation rounded *)
(* to the nearest representable value, ties to the even mantissa.  A float *)
(* is [m, e], the value m * 2^e, with m = 0 (and e = 0) or                 *)
(* 2^(MantissaBits-1) <= |m| < 2^MantissaBits; exponents are not bounded.  *)

RECURSIVE Pow2(_)
Pow2(k) == IF k = 0 THEN 1 ELSE 2 * Pow2(k - 1)

Abs(x) == IF x < 0 THEN 0 - x ELSE x

FZero == [m |-> 0, e |-> 0]

\* the quotient n / d rounded to the nearest integer, ties to even
RoundHalfEven(n, d) ==
    LET q == n \div d
        r == n % d
    IN  IF 2 * r > d \/ (2 * r = d /\ q % 2 = 1) THEN q + 1 ELSE q

\* (n / d) * 2^e for n, d > 0, rounded to a float
RECURSIVE RoundPositive(_, _, _)
RoundPositive(n, d, e) ==
    IF n >= d * Pow2(MantissaBits) THEN RoundPositive(n, 2 * d, e + 1)
    ELSE IF n < d * Pow2(MantissaBits - 1) THEN RoundPositive(2 * n, d, e - 1)
    ELSE LET m == RoundHalfEven(n, d) IN
         IF m = Pow2(MantissaBits)
         THEN [m |-> Pow2(MantissaBits - 1), e |-> e + 1]
         ELSE [m |-> m, e |-> e]

\* (n / d) * 2^e for d > 0, rounded to a float
FloatOf(n, d, e) ==
    IF n = 0 THEN FZero
    ELSE LET r == RoundPositive(Abs(n), d, e) IN
         IF n < 0 THEN [m |-> 0 - r.m, e |-> r.e] ELSE r

FMul(a, b) == FloatOf(a.m * b.m, 1, a.e + b.e)

\* b is not zero
FDiv(a, b) ==
    FloatOf(IF b.m < 0 THEN 0 - a.m ELSE a.m, Abs(b.m), a.e - b.e)

\* an operand more than MantissaBits + 1 binary places below the other is
\* under a quarter of the other's last place, and is rounded away
FAdd(a, b) ==
    IF a.m = 0 THEN b
    ELSE IF b.m = 0 THEN a
    ELSE IF a.e - b.e >= MantissaBits + 2 THEN a
    ELSE IF b.e - a.e >= MantissaBits + 2 THEN b
    ELSE LET e == IF a.e < b.e THEN a.e ELSE b.e IN
         FloatOf(a.m * Pow2(a.e - e) + b.m * Pow2(b.e - e), 1, e)

FSub(a, b) == FAdd(a, [m |-> 0 - b.m, e |-> b.e])

\* a <= b
FLe(a, b) == FSub(b, a).m >= 0

\* the float a decimal literal k/Grid denotes
Literal(k) == FloatOf(k, Grid, 0)

---------------------------------------------------------------------------
(* bayesian_update.  A probability k/Grid is passed as the float of that   *)
(* literal; beside the float the function returns, the value of the same   *)
(* expression over the reals is kept as the fraction num/den.              *)

Probabilities == (0 - 1)..(Grid + 1)

InRange(k) == 0 <= k /\ k <= Grid

\* a slip in lines 142-143: the weight of the hypothesis being true is
\* left out of the evidence
Evidence_OnlyFalse(prior, lt, lf) ==
    FMul(Literal(lf), FSub(Literal(Grid), Literal(prior)))

\* lines 142-143: likelihood_given_true * prior
\*                + likelihood_given_false * (1 - prior)
Evidence(prior, lt, lf) ==
    FAdd(FMul(Literal(lt), Literal(prior)),
         FMul(Literal(lf), FSub(Literal(Grid), Literal(prior))))

\* the same over the reals, in units of 1/Grid^2
ExactEvidence(prior, lt, lf) == lt * prior + lf * (Grid - prior)

\* a slip in lines 145-146: the test for zero evidence is missing, and the
\* float division raises ZeroDivisionError
BayesianUpdateOf_NoZeroTest(prior, lt, lf) ==
    LET evidence == Evidence(prior, lt, lf) IN
    IF evidence.m = 0
    THEN [end |-> "raised", error |-> "ZeroDivisionError",
          posterior |-> FZero, exact |-> [num |-> 0, den |-> 1]]
    ELSE [end |-> "returned", error |-> "none",
          posterior |-> FDiv(FMul(Literal(lt), Literal(prior)), evidence),
          exact |-> [num |-> lt * prior,
                     den |-> ExactEvidence(prior, lt, lf)]]

\* a slip in line 148: the posterior is the likelihood over the evidence
BayesianUpdateOf_NoPrior(prior, lt, lf) ==
    LET evidence == Evidence(prior, lt, lf) IN
    IF evidence.m = 0
    THEN [end |-> "returned", error |-> "none",
          posterior |-> Literal(prior), exact |-> [num |-> prior, den |-> Grid]]
    ELSE [end |-> "returned", error |-> "none",
          posterior |-> FDiv(Literal(lt), evidence),
          exact |-> [num |-> lt * Grid,
                     den |-> ExactEvidence(prior, lt, lf)]]

\* lines 142-149: what bayesian_update(prior, lt, lf) ends with
BayesianUpdateOf(prior, lt, lf) ==
    LET evidence == Evidence(prior, lt, lf) IN
    IF evidence.m = 0
    THEN [end |-> "returned", error |-> "none",
          posterior |-> Literal(prior), exact |-> [num |-> prior, den |-> Grid]]
    ELSE [end |-> "returned", error |-> "none",
          posterior |-> FDiv(FMul(Literal(lt), Literal(prior)), evidence),
          exact |-> [num |-> lt * prior,
                     den |-> ExactEvidence(prior, lt, lf)]]

\* one call of bayesian_update, lines 127-149
BayesianUpdate(prior, lt, lf) ==
    /\ ret = NoCall
    /\ ret' = [method |-> "bayesian_update",
               args |-> [prior |-> prior, likelihood_given_true |-> lt,
                         likelihood_given_false |-> lf]]
              @@ BayesianUpdateOf(prior, lt, lf)
    /\ UNCHANGED <<schedVars, rng, calls, base_rates>>

---------------------------------------------------------------------------
(* calculate_sample_size.  Probabilities are in thousandths, normal        *)
(* quantiles in hundredths, effect sizes in tenths.                        *)

\* scipy.stats.norm.ppf at the probabilities the calls below use, to two
\* decimals
NormPpf(q) ==
    CASE q = 5   -> 0 - 258
      [] q = 10  -> 0 - 233
      [] q = 25  -> 0 - 196
      [] q = 50  -> 0 - 164
      [] q = 100 -> 0 - 128
      [] q = 200 -> 0 - 84
      [] q = 500 -> 0
      [] q = 800 -> 84
      [] q = 900 -> 128
      [] q = 950 -> 164
      [] q = 975 -> 196
      [] q = 990 -> 233
      [] q = 995 -> 258

EffectSizes == {0 - 20, 0 - 5, 0 - 2, 0, 2, 5, 20}
Powers == {5, 25, 50, 100, 200, 500, 800, 900, 950, 975, 990, 995}
Alphas == {10, 50, 100, 200}

\* np.ceil of n / d, for n >= 0 and d > 0
Ceil(n, d) == (n + d - 1) \div d

\* a slip in line 171: the effect size multiplies instead of dividing
SampleSizeOf_TimesEffect(effect_size, power, alpha) ==
    LET z_alpha == NormPpf(1000 - alpha \div 2)
        z_beta  == NormPpf(power)
        zz      == (z_alpha + z_beta) * (z_alpha + z_beta) * 2
    IN  [end |-> "returned", error |-> "none",
         n |-> Ceil(zz * effect_size * effect_size, 1000000)]

\* lines 168-172: what calculate_sample_size ends with.  Dividing a
\* numpy float by zero gives inf, or nan for 0/0, and int() of either raises.
SampleSizeOf(effect_size, power, alpha) ==
    LET z_alpha == NormPpf(1000 - alpha \div 2)
        z_beta  == NormPpf(power)
        zz      == (z_alpha + z_beta) * (z_alpha + z_beta) * 2
    IN  IF effect_size = 0
        THEN [end |-> "raised",
              error |-> IF zz = 0 THEN "ValueError" ELSE "OverflowError",
              n |-> 0]
        ELSE [end |-> "returned", error |-> "none",
              n |-> Ceil(zz, 100 * effect_size * effect_size)]

\* one call of calculate_sample_size, lines 151-172
CalculateSampleSize(effect_size, power, alpha) ==
    /\ ret = NoCall
    /\ ret' = [method |-> "calculate_sample_size",
               args |-> [effect_size |-> effect_size, power |-> power,
                         alpha |-> alpha]]
              @@ SampleSizeOf(effect_size, power, alpha)
    /\ UNCHANGED <<schedVars, rng, calls, base_rates>>

---------------------------------------------------------------------------
(* calculate_confidence_interval.  Critical values and bounds are in       *)
(* thousandths; the estimate and the standard error are whole numbers.     *)

\* line 15, in thousandths: the confidence level of a RiskAnalyzer()
confidence_level == 950

\* 1 - (1 - self.confidence_level) / 2, lines 216 and 218
UpperTail == 1000 - (1000 - confidence_level) \div 2

\* scipy.stats.t.ppf(0.975, df) for df = 1 .. 29, to three decimals
TTable975 ==
    <<12706, 4303, 3182, 2776, 2571, 2447, 2365, 2306, 2262, 2228,
      2201, 2179, 2160, 2145, 2131, 2120, 2110, 2101, 2093, 2086,
      2080, 2074, 2069, 2064, 2060, 2056, 2052, 2048, 2045>>

\* scipy.stats.t.ppf(q, df): nan unless df > 0
TPpf(q, df) ==
    IF df <= 0 THEN [nan |-> TRUE, x |-> 0]
    ELSE CASE q = 975 -> [nan |-> FALSE, x |-> TTable975[df]]

SampleSizes == {0 - 1, 0, 1, 2, 5, 29, 30, 31, 100}
Estimates == {0 - 1, 0, 2}
StandardErrors == {0, 1, 3}

\* lines 215-221: what calculate_confidence_interval ends with; a nan
\* critical value makes both bounds nan
ConfidenceIntervalOf(estimate, standard_error, sample_size) ==
    LET critical_value ==
            IF sample_size < 30
            THEN TPpf(UpperTail, sample_size - 1)
            ELSE [nan |-> FALSE, x |-> 10 * NormPpf(UpperTail)]
        margin == critical_value.x * standard_error
    IN  IF critical_value.nan
        THEN [end |-> "returned", error |-> "none", nan |-> TRUE,
              lower |-> 0, upper |-> 0]
        ELSE [end |-> "returned", error |-> "none", nan |-> FALSE,
              lower |-> 1000 * estimate - margin,
              upper |-> 1000 * estimate + margin]

\* one call of calculate_confidence_interval, lines 197-221
CalculateConfidenceInterval(estimate, standard_error, sample_size) ==
    /\ ret = NoCall
    /\ ret' = [method |-> "calculate_confidence_interval",
               args |-> [estimate |-> estimate,
                         standard_error |-> standard_error,
                         sample_size |-> sample_size]]
              @@ ConfidenceIntervalOf(estimate, standard_error, sample_size)
    /\ UNCHANGED <<schedVars, rng, calls, base_rates>>

---------------------------------------------------------------------------
(* adjust_for_base_rate.  The projection is a whole number, a base rate is *)
(* in hundred-thousandths; beside the float returned, the value over the   *)
(* reals is kept as num/den + millionths/1000000.                          *)

Projections == {0 - 30, 0, 10, 10000000}

\* the keys of the table, and a scenario type that is no key of it
ScenarioTypes == DOMAIN BaseRateTable \cup {"unlisted"}

\* a slip in line 190: the two weights are exchanged
AdjustOf_WeightsSwapped(optimistic_projection, scenario_type, table) ==
    IF scenario_type \in DOMAIN table
    THEN LET base_rate == table[scenario_type] IN
         [end |-> "returned", error |-> "none",
          adjusted |-> FAdd(FMul(FloatOf(base_rate, 100000, 0),
                                 FloatOf(3, 10, 0)),
                            FMul(FloatOf(optimistic_projection, 1, 0),
                                 FloatOf(7, 10, 0))),
          exact |-> [num |-> 7 * optimistic_projection, den |-> 10,
                     millionths |-> 3 * base_rate]]
    ELSE [end |-> "returned", error |-> "none",
          adjusted |-> FDiv(FloatOf(optimistic_projection, 1, 0),
                            FloatOf(3, 1, 0)),
          exact |-> [num |-> optimistic_projection, den |-> 3,
                     millionths |-> 0]]

\* lines 187-195: what adjust_for_base_rate ends with
AdjustOf(optimistic_projection, scenario_type, table) ==
    IF scenario_type \in DOMAIN table
    THEN LET base_rate == table[scenario_type] IN
         [end |-> "returned", error |-> "none",
          adjusted |-> FAdd(FMul(FloatOf(base_rate, 100000, 0),
                                 FloatOf(7, 10, 0)),
                            FMul(FloatOf(optimistic_projection, 1, 0),
                                 FloatOf(3, 10, 0))),
          exact |-> [num |-> 3 * optimistic_projection, den |-> 10,
                     millionths |-> 7 * base_rate]]
    ELSE [end |-> "returned", error |-> "none",
          adjusted |-> FDiv(FloatOf(optimistic_projection, 1, 0),
                            FloatOf(3, 1, 0)),
          exact |-> [num |-> optimistic_projection, den |-> 3,
                     millionths |-> 0]]

\* one call of adjust_for_base_rate, lines 174-195: the table is only read
AdjustForBaseRate(optimistic_projection, scenario_type) ==
    /\ ret = NoCall
    /\ ret' = [method |-> "adjust_for_base_rate",
               args |-> [optimistic_projection |-> optimistic_projection,
                         scenario_type |-> scenario_type]]
              @@ AdjustOf(optimistic_projection, scenario_type, base_rates)
    /\ UNCHANGED <<schedVars, rng, calls, base_rates>>

---------------------------------------------------------------------------
(* failure_mode_analysis.  The failure_modes dict is the sequence of its   *)
(* items in insertion order; a probability is in tenths, an impact a whole *)
(* number.                                                                 *)

ModeNames == <<"outage", "breach", "churn">>

\* the dicts of up to three modes
FailureModeDicts ==
    UNION {[1..n -> [probability : {1, 5}, impact : {0, 2, 10}]]
           : n \in 0..3}

\* lines 106-114, for the item at position i
RiskOf(failure_modes, i) ==
    [mode |-> ModeNames[i],
     probability |-> failure_modes[i].probability,
     impact |-> failure_modes[i].impact,
     risk_score |-> failure_modes[i].probability * failure_modes[i].impact,
     expected_loss |-> failure_modes[i].probability * failure_modes[i].impact]

\* line 117: sorted(..., reverse=True) is stable: an item goes after the
\* items of at least its risk_score already placed
RECURSIVE InsertByRisk(_, _)
InsertByRisk(sorted, x) ==
    IF sorted = <<>> THEN <<x>>
    ELSE IF Head(sorted).risk_score >= x.risk_score
         THEN <<Head(sorted)>> \o InsertByRisk(Tail(sorted), x)
         ELSE <<x>> \o sorted

RECURSIVE SortedRisks(_, _)
SortedRisks(failure_modes, n) ==
    IF n = 0 THEN <<>>
    ELSE InsertByRisk(SortedRisks(failure_modes, n - 1),
                      RiskOf(failure_modes, n))

\* line 123: max(items, key=probability) is the first item of the largest
\* probability
HighestProbability(failure_modes) ==
    LET n == Len(failure_modes)
        top == Max({failure_modes[i].probability : i \in 1..n})
    IN  ModeNames[Min({i \in 1..n : failure_modes[i].probability = top})]

\* line 124: max(items, key=impact) is the first item of the largest impact
HighestImpact(failure_modes) ==
    LET n == Len(failure_modes)
        top == Max({failure_modes[i].impact : i \in 1..n})
    IN  ModeNames[Min({i \in 1..n : failure_modes[i].impact = top})]

NoAnalysis ==
    [failure_modes |-> <<>>, total_expected_loss |-> 0,
     highest_risk |-> "None", highest_probability |-> "None",
     highest_impact |-> "None"]

\* lines 103-125: what failure_mode_analysis ends with; max() of no item
\* raises ValueError while the returned dict is being built
FailureModeAnalysisOf(failure_modes) ==
    LET n == Len(failure_modes)
        sorted_risks == SortedRisks(failure_modes, n)
        total_risk ==
            SumSeq([i \in 1..n |-> RiskOf(failure_modes, i).risk_score])
    IN  IF n = 0
        THEN [end |-> "raised", error |-> "ValueError"] @@ NoAnalysis
        ELSE [end |-> "returned", error |-> "none",
              failure_modes |-> sorted_risks,
              total_expected_loss |-> total_risk,
              highest_risk |-> sorted_risks[1].mode,
              highest_probability |-> HighestProbability(failure_modes),
              highest_impact |-> HighestImpact(failure_modes)]

\* one call of failure_mode_analysis, lines 92-125
FailureModeAnalysis(failure_modes) ==
    /\ ret = NoCall
    /\ ret' = [method |-> "failure_mode_analysis",
               args |-> [failure_modes |-> failure_modes]]
              @@ FailureModeAnalysisOf(failure_modes)
    /\ UNCHANGED <<schedVars, rng, calls, base_rates>>

---------------------------------------------------------------------------
(* bayesian_update applied to its own result, over the reals: a            *)
(* probability is the fraction num/den, a likelihood a multiple of 1/Grid. *)

ChainLikelihoods == {0, 1, Grid \div 2, Grid}

\* lines 142-143 times Grid * den: lt * prior + lf * (1 - prior)
EvidenceOver(prior, lt, lf) ==
    lt * prior.num + lf * (prior.den - prior.num)

\* a slip in line 143: likelihood_given_false is weighted by 1, not by
\* 1 - prior
ExactUpdate_NoComplement(prior, lt, lf) ==
    IF lt * prior.num + lf * prior.den = 0 THEN prior
    ELSE [num |-> lt * prior.num, den |-> lt * prior.num + lf * prior.den]

\* lines 142-149 over the reals
ExactUpdate(prior, lt, lf) ==
    IF EvidenceOver(prior, lt, lf) = 0 THEN prior
    ELSE [num |-> lt * prior.num, den |-> EvidenceOver(prior, lt, lf)]

\* bayesian_update(bayesian_update(prior, a, b), c, d): two calls of lines
\* 127-149, the second on what the first returned
BayesianUpdateTwice(prior, a, b, c, d) ==
    /\ ret = NoCall
    /\ LET first == ExactUpdate([num |-> prior, den |-> Grid], a, b) IN
       ret' = [method |-> "bayesian_update_twice",
               args |-> [prior |-> prior, first |-> <<a, b>>,
                         second |-> <<c, d>>],
               end |-> "returned", error |-> "none",
               first |-> first,
               exact |-> ExactUpdate(first, c, d)]
    /\ UNCHANGED <<schedVars, rng, calls, base_rates>>

StatNext ==
    \/ \E prior, lt, lf \in Probabilities : BayesianUpdate(prior, lt, lf)
    \/ \E effect_size \in EffectSizes, power \in Powers, alpha \in Alphas :
           CalculateSampleSize(effect_size, power, alpha)
    \/ \E estimate \in Estimates, standard_error \in StandardErrors,
          sample_size \in SampleSizes :
           CalculateConfidenceInterval(estimate, standard_error, sample_size)
    \/ \E optimistic_projection \in Projections,
          scenario_type \in ScenarioTypes :
           AdjustForBaseRate(optimistic_projection, scenario_type)
    \/ \E failure_modes \in FailureModeDicts :
           FailureModeAnalysis(failure_modes)
    \/ \E prior \in 0..Grid, a, b, c, d \in ChainLikelihoods :
           BayesianUpdateTwice(prior, a, b, c, d)

\* a RiskAnalyzer on which no method has been called
StatInit ==
    /\ ret = NoCall
    /\ base_rates = BaseRateTable
    /\ rng = <<>>
    /\ calls = <<>>
    /\ input = <<>>
    /\ mode = "serial"
    /\ tasks = [k \in Callers |-> <<>>]
    /\ pc = [c \in Callers |-> "idle"]
    /\ changed = [c \in Callers |-> FALSE]
    /\ sweeps = [c \in Callers |-> 0]
    /\ project_duration = [c \in Callers |-> 0]
    /\ result = [c \in Callers |-> NoResult]
    /\ error = [c \in Callers |-> "none"]

SpecStat == StatInit /\ [][StatNext]_vars

---------------------------------------------------------------------------
(* Claims about bayesian_update *)

Updated == ret.method = "bayesian_update"

AllInRange ==
    /\ InRange(ret.args.prior)
    /\ InRange(ret.args.likelihood_given_true)
    /\ InRange(ret.args.likelihood_given_false)

\* C13: a Bayesian update with a prior or a likelihood outside [0, 1] fails
\* with the error InvalidProbability.
C13_OutOfRangeFailsWithInvalidProbability ==
    (Updated /\ ~AllInRange) =>
        /\ ret.end = "raised"
        /\ ret.error = "InvalidProbability"

\* the float x lies in [0, 1]
FUnit(x) == FLe(FZero, x) /\ FLe(x, Literal(Grid))

\* C14: for a prior and likelihoods in [0, 1] the posterior returned lies in
\* [0, 1], as a float and as the value of the formula over the reals.
C14_PosteriorInUnitInterval ==
    (Updated /\ AllInRange) =>
        /\ ret.end = "returned"
        /\ FUnit(ret.posterior)
        /\ 0 <= ret.exact.num
        /\ ret.exact.num <= ret.exact.den

C14_Witness ==
    /\ Updated
    /\ AllInRange
    /\ 0 < ret.exact.num
    /\ ret.exact.num < ret.exact.den
    /\ ExactEvidence(ret.args.prior, ret.args.likelihood_given_true,
                     ret.args.likelihood_given_false) > 0
    /\ ret.posterior.m # 0
    /\ ret.posterior # Literal(Grid)

Uninformative ==
    /\ Updated
    /\ AllInRange
    /\ ret.args.likelihood_given_true = ret.args.likelihood_given_false

\* C15 as the specification states it: update(prior, L, L) returns exactly
\* prior for every prior and every L in [0, 1].
C15_UninformativeReturnsExactlyPrior ==
    Uninformative =>
        /\ ret.end = "returned"
        /\ ret.posterior = Literal(ret.args.prior)

\* eight units of roundoff, 2^(3 - MantissaBits)
Roundoff8 == [m |-> Pow2(MantissaBits - 1), e |-> 4 - 2 * MantissaBits]

\* |a - b| <= |b| * 2^(3 - MantissaBits)
FClose(a, b) ==
    LET d == FSub(a, b)
    IN  FLe([m |-> Abs(d.m), e |-> d.e],
            FMul([m |-> Abs(b.m), e |-> b.e], Roundoff8))

\* C15, amended: for prior and L in [0, 1], update(prior, L, L) returns
\* exactly prior when L = 0, prior = 0 or prior = 1; otherwise the formula
\* equals prior over the reals and the float returned is prior up to the
\* rounding of the four operations (within eight units of roundoff).
C15_UninformativeReturnsPriorUpToRounding ==
    Uninformative =>
        /\ ret.end = "returned"
        /\ ret.exact.num * Grid = ret.args.prior * ret.exact.den
        /\ FClose(ret.posterior, Literal(ret.args.prior))
        /\ (\/ ret.args.likelihood_given_true = 0
            \/ ret.args.prior = 0
            \/ ret.args.prior = Grid) => ret.posterior = Literal(ret.args.prior)

\* uninformative evidence whose posterior is rounded away from the prior
C15_Witness ==
    /\ Uninformative
    /\ ret.args.likelihood_given_true > 0
    /\ ret.posterior # Literal(ret.args.prior)

ZeroEvidence ==
    /\ Updated
    /\ \/ Evidence(ret.args.prior, ret.args.likelihood_given_true,
                   ret.args.likelihood_given_false).m = 0
       \/ /\ AllInRange
          /\ ExactEvidence(ret.args.prior, ret.args.likelihood_given_true,
                           ret.args.likelihood_given_false) = 0

\* C16: whenever the evidence is zero, the update returns prior unchanged
\* and raises no error.
C16_ZeroEvidenceReturnsPrior ==
    ZeroEvidence =>
        /\ ret.end = "returned"
        /\ ret.error = "none"
        /\ ret.posterior = Literal(ret.args.prior)
        /\ ret.exact = [num |-> ret.args.prior, den |-> Grid]

\* prior = 1 with likelihood_given_true = 0 and a positive other likelihood
C16_Witness ==
    /\ ZeroEvidence
    /\ ret.args.prior = Grid
    /\ ret.args.likelihood_given_true = 0
    /\ ret.args.likelihood_given_false > 0
    /\ ret.end = "returned"

\* update(prior = 0.5, likelihood_given_true = 0.9,
\*        likelihood_given_false = 0.1)
IsScenarioUpdate ==
    /\ Updated
    /\ 2 * ret.args.prior = Grid
    /\ 10 * ret.args.likelihood_given_true = 9 * Grid
    /\ 10 * ret.args.likelihood_given_false = Grid

\* C17: when the evidence is not zero the update returns
\* likelihood_given_true * prior / evidence, and
\* update(0.5, 0.9, 0.1) returns 0.9.
C17_PosteriorIsBayesRule ==
    (Updated /\ ~ZeroEvidence) =>
        LET p  == ret.args.prior
            lt == ret.args.likelihood_given_true
            lf == ret.args.likelihood_given_false
        IN  /\ ret.end = "returned"
            /\ ret.posterior =
                   FDiv(FMul(Literal(lt), Literal(p)),
                        FAdd(FMul(Literal(lt), Literal(p)),
                             FMul(Literal(lf),
                                  FSub(Literal(Grid), Literal(p)))))
            /\ ret.exact.num = lt * p
            /\ ret.exact.den = lt * p + lf * (Grid - p)
            /\ IsScenarioUpdate =>
                   /\ ret.posterior = FloatOf(9, 10, 0)
                   /\ 10 * ret.exact.num = 9 * ret.exact.den

C17_Witness ==
    /\ IsScenarioUpdate
    /\ ~ZeroEvidence
    /\ ret.end = "returned"

---------------------------------------------------------------------------
(* Claims about calculate_sample_size *)

Sized == ret.method = "calculate_sample_size" /\ ret.args.effect_size # 0

\* C18 as the specification states it: for every non-zero effect size,
\* negative ones included, and every power in (0, 1), a larger effect size
\* never gives a larger sample size and a larger power never a smaller one.
C18_MonotoneForAllEffectSizesAndPowers ==
    Sized =>
        /\ ret.end = "returned"
        /\ \A d \in EffectSizes \ {0} :
               d > ret.args.effect_size =>
                   SampleSizeOf(d, ret.args.power, ret.args.alpha).n <= ret.n
        /\ \A p \in Powers :
               p > ret.args.power =>
                   SampleSizeOf(ret.args.effect_size, p, ret.args.alpha).n
                       >= ret.n

\* C18, amended: the sample size is returned for every non-zero effect
\* size; with power and alpha fixed, an effect size of larger magnitude never
\* gives a larger sample size (so it is non-increasing over positive effect
\* sizes only); with effect size and alpha fixed, a larger power never gives
\* a smaller sample size among the powers of at least alpha/2.
C18_MonotoneInMagnitudeAndUsualPowers ==
    Sized =>
        /\ ret.end = "returned"
        /\ ret.n >= 0
        /\ \A d \in EffectSizes \ {0} :
               Abs(d) >= Abs(ret.args.effect_size) =>
                   SampleSizeOf(d, ret.args.power, ret.args.alpha).n <= ret.n
        /\ \A p \in Powers :
               (p > ret.args.power /\ 2 * ret.args.power >= ret.args.alpha) =>
                   SampleSizeOf(ret.args.effect_size, p, ret.args.alpha).n
                       >= ret.n

\* a call that a larger-magnitude effect size and a larger power both move
C18_Witness ==
    /\ Sized
    /\ 2 * ret.args.power >= ret.args.alpha
    /\ \E d \in EffectSizes \ {0} :
           /\ Abs(d) > Abs(ret.args.effect_size)
           /\ SampleSizeOf(d, ret.args.power, ret.args.alpha).n < ret.n
    /\ \E p \in Powers :
           /\ p > ret.args.power
           /\ SampleSizeOf(ret.args.effect_size, p, ret.args.alpha).n > ret.n

\* C19: with effect_size = 0 the call fails with InvalidEffectSize, not
\* with a generic arithmetic error, and returns no integer.
C19_ZeroEffectSizeFailsWithInvalidEffectSize ==
    (ret.method = "calculate_sample_size" /\ ret.args.effect_size = 0) =>
        /\ ret.end = "raised"
        /\ ret.error = "InvalidEffectSize"

---------------------------------------------------------------------------
(* Claims about calculate_confidence_interval *)

\* C20: with sample_size <= 0 the call fails with InvalidSampleSize and
\* returns no bounds; with sample_size >= 1 it returns the bounds
\* estimate - margin and estimate + margin, the margin being the standard
\* error times the t critical value when sample_size < 30 and times the
\* normal critical value otherwise.
C20_ConfidenceIntervalContract ==
    ret.method = "calculate_confidence_interval" =>
        LET n  == ret.args.sample_size
            se == ret.args.standard_error
        IN  /\ n <= 0 =>
                   /\ ret.end = "raised"
                   /\ ret.error = "InvalidSampleSize"
            /\ n >= 1 =>
                   /\ ret.end = "returned"
                   /\ ~ret.nan
                   /\ \E critical \in 1..20000 :
                          /\ n >= 30 => critical = 1960
                          /\ (1 < n /\ n < 30) => critical = TTable975[n - 1]
                          /\ ret.lower = 1000 * ret.args.estimate - critical * se
                          /\ ret.upper = 1000 * ret.args.estimate + critical * se

---------------------------------------------------------------------------
(* Claims about adjust_for_base_rate *)

Adjusted == ret.method = "adjust_for_base_rate"

\* C21: adjust returns base_rate * 0.7 + optimistic_projection * 0.3 when
\* the scenario type is a key of the base-rate table and
\* optimistic_projection / 3 otherwise, and leaves the table as it was;
\* adjust(10_000_000, "new_product_success") returns 3_000_000.035 (over the
\* reals exactly; as a float, the float of that literal up to the rounding
\* of the three operations at the mantissa width followed here).
C21_AdjustBlendsOrDividesByThree ==
    Adjusted =>
        LET p == ret.args.optimistic_projection
            k == ret.args.scenario_type
        IN  /\ ret.end = "returned"
            /\ base_rates = BaseRateTable
            /\ k \in DOMAIN BaseRateTable =>
                   /\ ret.exact = [num |-> 3 * p, den |-> 10,
                                   millionths |-> 7 * BaseRateTable[k]]
                   /\ ret.adjusted =
                          FAdd(FMul(FloatOf(BaseRateTable[k], 100000, 0),
                                    FloatOf(7, 10, 0)),
                               FMul(FloatOf(p, 1, 0), FloatOf(3, 10, 0)))
            /\ k \notin DOMAIN BaseRateTable =>
                   /\ ret.exact = [num |-> p, den |-> 3, millionths |-> 0]
                   /\ ret.adjusted = FDiv(FloatOf(p, 1, 0), FloatOf(3, 1, 0))
            /\ (p = 10000000 /\ k = "new_product_success") =>
                   /\ ret.exact.num = 3000000 * ret.exact.den
                   /\ ret.exact.millionths = 35000
                   /\ FClose(ret.adjusted, FloatOf(600000007, 200, 0))

\* adjust(10_000_000, "new_product_success") has returned
C21_Witness ==
    /\ Adjusted
    /\ ret.args.optimistic_projection = 10000000
    /\ ret.args.scenario_type = "new_product_success"
    /\ ret.end = "returned"

---------------------------------------------------------------------------
(* Claims about failure_mode_analysis *)

\* C22: the analysis of an empty mapping returns a neutral result (no modes,
\* total expected loss 0, no highest-risk mode) and raises no error; for a
\* non-empty mapping the modes returned are all the modes, in descending
\* order of risk_score = probability * impact.
C22_EmptyIsNeutralAndModesSorted ==
    ret.method = "failure_mode_analysis" =>
        LET n   == Len(ret.args.failure_modes)
            out == ret.failure_modes
        IN  /\ ret.end = "returned"
            /\ ret.error = "none"
            /\ n = 0 =>
                   /\ out = <<>>
                   /\ ret.total_expected_loss = 0
                   /\ ret.highest_risk = "None"
            /\ n > 0 =>
                   /\ Len(out) = n
                   /\ \A i \in 1..n :
                          out[i].risk_score = out[i].probability * out[i].impact
                   /\ \A i \in 1..(n - 1) :
                          out[i].risk_score >= out[i + 1].risk_score

---------------------------------------------------------------------------
(* Claims about the passes of calculate_critical_path *)

\* the call of c has returned and no other call is at work on the dicts
Settled(c) ==
    /\ pc[c] = "done"
    /\ \A o \in Callers \ {c} : pc[o] = "idle" \/ Finished(o)

\* the names of the tasks that depend on the task named n
Dependents(ts, n) ==
    {ts[i].name : i \in {j \in 1..Len(ts) : n \in ts[j].dependencies}}

\* C23: after scheduling an acyclic collection every task has late_finish =
\* project_duration if no task depends on it and otherwise the minimum
\* late_start over the tasks that depend on it, late_start = late_finish -
\* duration and slack = late_start - early_start.
C23_LateFinishIsMinOverDependents ==
    \A c \in Callers :
        (Acyclic(input) /\ Resolved(input) /\ Settled(c)) =>
            LET ts == tasks[Coll(c)] IN
            \A i \in 1..Len(ts) :
                LET t == ts[i]
                    after == Dependents(ts, t.name)
                IN  /\ t.late_finish =
                           IF after = {} THEN result[c].project_duration
                           ELSE Min({ts[TaskMap(ts, n)].late_start
                                     : n \in after})
                    /\ t.late_start = t.late_finish - t.duration
                    /\ t.slack = t.late_start - t.early_start

\* C24: after scheduling an acyclic collection whose dependencies all
\* resolve, whatever the durations (zero included) and the listing order,
\* the call has returned and every task has early_start = the maximum
\* early_finish over its dependencies, or 0 if it has none, and
\* early_finish = early_start + duration.
C24_EarlyStartIsMaxOverDependencies ==
    \A c \in Callers :
        (input # <<>> /\ Acyclic(input) /\ Resolved(input)) =>
            /\ Finished(c) => pc[c] = "done"
            /\ Settled(c) =>
                   LET ts == tasks[Coll(c)] IN
                   \A i \in 1..Len(ts) :
                       /\ ts[i].early_start =
                              IF ts[i].dependencies = {} THEN 0
                              ELSE Max(DepFinishes(ts, ts[i]))
                       /\ ts[i].early_finish =
                              ts[i].early_start + ts[i].duration

\* a call has returned on a list in which a task comes before a dependency
\* of its own, which itself starts after 0
C24_Witness ==
    \E c \in Callers :
        /\ Acyclic(input) /\ Resolved(input) /\ Settled(c)
        /\ \E i, j \in 1..Len(input) :
               /\ i < j
               /\ input[j].name \in input[i].dependencies
               /\ tasks[Coll(c)][j].early_start > 0
               /\ tasks[Coll(c)][i].early_start > tasks[Coll(c)][j].early_start

\* the task named n lies on a dependency path from a task without
\* dependencies to a task without dependents whose early_finish is pd
OnPathToSink(ts, n, pd) ==
    /\ \E a \in Reach(ts, {n}, Len(ts)) :
           ts[TaskMap(ts, a)].dependencies = {}
    /\ \E z \in NameSet(ts) :
           /\ Dependents(ts, z) = {}
           /\ ts[TaskMap(ts, z)].early_finish = pd
           /\ n \in Reach(ts, {z}, Len(ts))

\* C25: for every acyclic collection, project_duration is the maximum
\* early_finish over the tasks, and every task reported with slack 0 lies on
\* a dependency path from a task with no dependencies to a task with no
\* dependents whose early_finish is project_duration.
C25_DurationIsMaxFinishAndCriticalOnPath ==
    \A c \in Callers :
        (Acyclic(input) /\ Settled(c)) =>
            LET ts == tasks[Coll(c)]
                pd == result[c].project_duration
            IN  /\ pd = Max({ts[i].early_finish : i \in 1..Len(ts)})
                /\ \A n \in SeqRange(result[c].critical_path) :
                       /\ ts[TaskMap(ts, n)].slack = 0
                       /\ OnPathToSink(ts, n, pd)
                /\ \A i \in 1..Len(ts) :
                       ts[i].slack = 0 =>
                           ts[i].name \in SeqRange(result[c].critical_path)

\* a call has returned with a critical task that has a dependency, and with
\* a task that is not critical
C25_Witness ==
    \E c \in Callers :
        /\ Acyclic(input) /\ Settled(c)
        /\ \E n \in SeqRange(result[c].critical_path) :
               DepsOf(input, n) # {}
        /\ result[c].tasks_with_slack # <<>>

---------------------------------------------------------------------------
(* Claims about the black-swan injection of monte_carlo_simulation *)

\* the generator's cycle k draws earlier
Rewind(stream, k) ==
    Advance(stream, (Len(stream) - (k % Len(stream))) % Len(stream))

\* the black-swan severity of a configuration, in tenths (default 0.1)
SeverityOf(cfg) ==
    IF "black_swan_severity" \in DOMAIN cfg THEN cfg.black_swan_severity
    ELSE 1

\* C26: with black-swan injection enabled each sample is decided by its own
\* draw: it is overwritten by exactly base_case * black_swan_severity, the
\* severity (like the probability) being the configuration's, or keeps its
\* normal draw; with injection disabled no sample is overwritten.  (Stated
\* for the calls whose scale numpy accepts, and sample by sample for a first
\* call, whose draws the generator's state gives back.)
C26_BlackSwanOverwritesPerSample ==
    \A k \in 1..Len(calls) :
        LET cfg == calls[k].args
            n == cfg.n_simulations
            used == IF cfg.include_black_swan THEN 2 * n ELSE n
            before == Rewind(rng, used)
            normal == NormalSamples(cfg, Draws(before, 0, n))
            hits == Draws(before, n, n)
        IN  ~ScaleSignBit(cfg) =>
                /\ Returned(k)
                /\ Len(calls) = 1 =>
                       \A i \in 1..n :
                           calls[k].simulations[i] =
                               IF cfg.include_black_swan /\ BlackSwanHit(hits[i])
                               THEN (cfg.base_case * SeverityOf(cfg)) \div 10
                               ELSE normal[i]

\* C27: for every acyclic task collection (durations are never negative)
\* the forward relaxation loop of a call makes at most as many sweeps as
\* there are tasks, plus one, and every call ends.
C27_TerminatesWithinSweepBound ==
    /\ [](\A c \in Callers :
              Acyclic(input) => sweeps[c] <= Len(input) + 1)
    /\ (Acyclic(input) => <>(\A c \in Callers : Finished(c)))

\* a call on three tasks has ended after three sweeps
C27_Witness ==
    \E c \in Callers :
        /\ Acyclic(input)
        /\ Len(input) = 3
        /\ pc[c] = "done"
        /\ sweeps[c] = 3

\* C28: after a call on a non-empty acyclic collection every task has
\* slack >= 0 and is listed in exactly one of critical_path (slack = 0) and
\* tasks_with_slack (slack > 0), and critical_path is not empty.
C28_SlackPartitionsTheTasks ==
    \A c \in Callers :
        (input # <<>> /\ Acyclic(input) /\ Settled(c)) =>
            LET ts == tasks[Coll(c)]
                critical == SeqRange(result[c].critical_path)
                slacked == SeqRange(result[c].tasks_with_slack)
            IN  /\ \A i \in 1..Len(ts) :
                       /\ ts[i].slack >= 0
                       /\ ts[i].name \in critical <=> ts[i].slack = 0
                       /\ ts[i].name \in slacked <=> ts[i].slack > 0
                /\ critical \cap slacked = {}
                /\ critical \cup slacked = NameSet(input)
                /\ Len(result[c].critical_path) = Cardinality(critical)
                /\ Len(result[c].tasks_with_slack) = Cardinality(slacked)
                /\ result[c].critical_path # <<>>

\* a call on three tasks has returned two critical tasks and one with slack
C28_Witness ==
    \E c \in Callers :
        /\ Acyclic(input) /\ Settled(c)
        /\ Len(input) = 3
        /\ Len(result[c].critical_path) = 2
        /\ Len(result[c].tasks_with_slack) = 1

\* the orders in which a list of n tasks can be listed
Orders(n) == {p \in [1..n -> 1..n] : \A i, j \in 1..n : p[i] = p[j] => i = j}

Reordered(ts, p) == [i \in 1..Len(ts) |-> ts[p[i]]]

\* C29: the schedule does not depend on the listing order: for every acyclic
\* collection, a call on any reordering of the task list ends as the call
\* on the list did, with the same project_duration, the same early_start,
\* early_finish and slack for every task, and the same set of critical
\* tasks.
C29_ListingOrderDoesNotMatter ==
    \A c \in Callers :
        (Acyclic(input) /\ Finished(c)) =>
            \A p \in Orders(Len(input)) :
                LET other == Solo(Reordered(input, p))
                    ts == tasks[Coll(c)]
                IN  /\ other.pc = pc[c]
                    /\ other.error = error[c]
                    /\ Settled(c) =>
                           /\ other.result.project_duration
                                  = result[c].project_duration
                           /\ SeqRange(other.result.critical_path)
                                  = SeqRange(result[c].critical_path)
                           /\ \A i \in 1..Len(ts) :
                                  LET o == other.tasks[
                                               TaskMap(other.tasks, ts[i].name)]
                                  IN  /\ o.early_start = ts[i].early_start
                                      /\ o.early_finish = ts[i].early_finish
                                      /\ o.slack = ts[i].slack

\* a call has returned on a list whose forward pass is over after two sweeps
\* in one listing order and not in another
C29_Witness ==
    \E c \in Callers :
        /\ Acyclic(input) /\ Settled(c)
        /\ \E p \in Orders(Len(input)) :
               SoloForward([i \in 1..Len(input) |->
                               InitEarlyTask(Reordered(input, p)[i])], 2).end
               # SoloForward([i \in 1..Len(input) |->
                                 InitEarlyTask(input[i])], 2).end

---------------------------------------------------------------------------
(* Claims about successive Bayesian updates *)

UpdatedTwice == ret.method = "bayesian_update_twice"

\* the same two updates in the opposite order
OppositeFirst ==
    ExactUpdate([num |-> ret.args.prior, den |-> Grid],
                ret.args.second[1], ret.args.second[2])

OppositeOrder ==
    ExactUpdate(OppositeFirst, ret.args.first[1], ret.args.first[2])

\* no update of either order meets zero evidence
NoZeroEvidence ==
    LET start == [num |-> ret.args.prior, den |-> Grid] IN
    /\ EvidenceOver(start, ret.args.first[1], ret.args.first[2]) # 0
    /\ EvidenceOver(ret.first, ret.args.second[1], ret.args.second[2]) # 0
    /\ EvidenceOver(start, ret.args.second[1], ret.args.second[2]) # 0
    /\ EvidenceOver(OppositeFirst, ret.args.first[1], ret.args.first[2]) # 0

\* C30: successive updates commute over the reals: for every prior in
\* [0, 1] and likelihood pairs (a, b) and (c, d) in [0, 1], updating with
\* (a, b) and then (c, d) gives the value that updating with (c, d) and then
\* (a, b) gives, whenever no update of either order has zero evidence.
C30_UpdatesCommute ==
    (UpdatedTwice /\ NoZeroEvidence) =>
        /\ ret.exact.den # 0
        /\ OppositeOrder.den # 0
        /\ ret.exact.num * OppositeOrder.den = OppositeOrder.num * ret.exact.den

\* two informative, different pairs whose first updates differ
C30_Witness ==
    /\ UpdatedTwice
    /\ NoZeroEvidence
    /\ ret.args.first # ret.args.second
    /\ ret.args.first[1] # ret.args.first[2]
    /\ ret.args.second[1] # ret.args.second[2]
    /\ ret.first.num * OppositeFirst.den # OppositeFirst.num * ret.first.den
    /\ ret.exact.num * Grid # ret.args.prior * ret.exact.den
    /\ 0 < ret.exact.num
    /\ ret.exact.num < ret.exact.den

=============================================================================
